---- MODULE Spec2Model ----
(***************************************************************************)
(* async-osc: an OSC socket over an async UDP socket.                      *)
(*                                                                         *)
(* Two OscSockets, "A" and "B", are bound to the local addresses "X" and   *)
(* "Y"; "Z" is a foreign endpoint that is not driven by this library.      *)
(* Modelled: the buffer-reusing receiver (src/src/udp.rs), the packet      *)
(* stream and the send paths of OscSocket and OscSender (src/src/osc.rs),  *)
(* the conversions at the send call site (src/src/message.rs), the         *)
(* lifetime of the handles on the shared Arc<UdpSocket>, and, at their     *)
(* interface, the rosc codec and the UDP socket they call.                 *)
(*                                                                         *)
(* Specifications: Spec (the calls and the network), SpecSend (the calls,  *)
(* every send's return recorded), SpecRecv (the receive path alone),       *)
(* SpecLife (handles created and dropped), SpecConv (the conversions).     *)
(***************************************************************************)
EXTENDS Integers, Sequences

\* ------------------------------------------------------------------ bounds

\* Receive buffer capacity in 4-byte words (the code allocates 1024 * 64
\* bytes, udp.rs:46; the model scales it down and keeps every use relative
\* to BufCap).
CapWords == 4
\* Datagrams and receive errors the network hands to all receive queues
\* together, over a whole run.
MaxDgrams == 2
\* The same, in the runs that record what every send returned.
MaxObserved == 0
\* Live OscSender handles per socket.
MaxSenders == 2
\* Elements of a Vec passed as the arguments of a message.
MaxVec == 3

BufCap == 4 * CapWords

\* ----------------------------------------------------------------- options

None == [some |-> FALSE]
Some(v) == [some |-> TRUE, val |-> v]
Min(a, b) == IF a <= b THEN a ELSE b

\* ------------------------------------------------------------- rosc codec
\* The wire format is owned by the rosc crate; it is modelled here at byte
\* level for messages with int32 and string arguments and for bundles.

Zeros(n) == [i \in 1..n |-> 0]
\* An OSC string is NUL-terminated and padded to a multiple of four bytes.
PadLen(n) == 4 * ((n + 4) \div 4)
EncStr(s) == s \o Zeros(PadLen(Len(s)) - Len(s))
EncInt32(v) == << (v \div 16777216) % 256, (v \div 65536) % 256, (v \div 256) % 256, v % 256 >>
DecInt32(b, p) == ((b[p] * 256 + b[p + 1]) * 256 + b[p + 2]) * 256 + b[p + 3]

OscInt(v) == [t |-> "Int", int |-> v]
OscString(s) == [t |-> "String", str |-> s]
\* An argument value the encoder rejects (a malformed structure).
OscOpaque == [t |-> "Opaque"]
OscMessage(addr, args) == [kind |-> "Message", addr |-> addr, args |-> args]
OscBundle(tt, content) == [kind |-> "Bundle", timetag |-> tt, content |-> content]

RECURSIVE Concat(_)
Concat(ss) == IF ss = <<>> THEN <<>> ELSE Head(ss) \o Concat(Tail(ss))

Encodable(a) == a.t \in {"Int", "String"}
TagOf(a) == IF a.t = "Int" THEN 105 ELSE 115
EncArg(a) == IF a.t = "Int" THEN EncInt32(a.int) ELSE EncStr(a.str)
EncodeMessage(m) ==
  IF \E i \in 1..Len(m.args) : ~Encodable(m.args[i])
  THEN [ok |-> FALSE]
  ELSE [ok |-> TRUE,
        bytes |-> EncStr(m.addr)
                  \o EncStr(<<44>> \o [i \in 1..Len(m.args) |-> TagOf(m.args[i])])
                  \o Concat([i \in 1..Len(m.args) |-> EncArg(m.args[i])])]
\* "#bundle"
BundleTag == <<35, 98, 117, 110, 100, 108, 101>>
RECURSIVE encode(_)
encode(p) ==
  IF p.kind = "Message" THEN EncodeMessage(p)
  ELSE LET parts == [i \in 1..Len(p.content) |-> encode(p.content[i])]
       IN IF \E i \in 1..Len(parts) : ~parts[i].ok
          THEN [ok |-> FALSE]
          ELSE [ok |-> TRUE,
                bytes |-> EncStr(BundleTag) \o EncInt32(p.timetag[1]) \o EncInt32(p.timetag[2])
                          \o Concat([i \in 1..Len(parts) |->
                                       EncInt32(Len(parts[i].bytes)) \o parts[i].bytes])]

Fail == [ok |-> FALSE]
ReadStr(b, p) ==
  LET nuls == {i \in p..Len(b) : b[i] = 0}
  IN IF nuls = {} THEN Fail
     ELSE LET z == CHOOSE i \in nuls : \A j \in nuls : i <= j
              s == SubSeq(b, p, z - 1)
          IN IF p + PadLen(Len(s)) - 1 > Len(b) THEN Fail
             ELSE [ok |-> TRUE, str |-> s, next |-> p + PadLen(Len(s))]
RECURSIVE ReadArgs(_, _, _, _)
ReadArgs(b, p, tags, acc) ==
  IF tags = <<>> THEN [ok |-> TRUE, args |-> acc, next |-> p]
  ELSE IF Head(tags) = 105
       THEN IF p + 3 > Len(b) THEN Fail
            ELSE ReadArgs(b, p + 4, Tail(tags), Append(acc, OscInt(DecInt32(b, p))))
  ELSE IF Head(tags) = 115
       THEN LET r == ReadStr(b, p)
            IN IF ~r.ok THEN Fail
               ELSE ReadArgs(b, r.next, Tail(tags), Append(acc, OscString(r.str)))
  ELSE Fail
DecodeMessage(b) ==
  LET a == ReadStr(b, 1)
  IN IF ~a.ok THEN Fail
     ELSE IF a.next > Len(b) THEN [ok |-> TRUE, packet |-> OscMessage(a.str, <<>>)]
     ELSE LET t == ReadStr(b, a.next)
          IN IF ~t.ok \/ t.str = <<>> \/ Head(t.str) # 44 THEN Fail
             ELSE LET r == ReadArgs(b, t.next, Tail(t.str), <<>>)
                  IN IF ~r.ok THEN Fail
                     ELSE [ok |-> TRUE, packet |-> OscMessage(a.str, r.args)]
RECURSIVE decode(_)
RECURSIVE ReadElems(_, _, _)
ReadElems(b, p, acc) ==
  IF p > Len(b) THEN [ok |-> TRUE, content |-> acc]
  ELSE IF p + 3 > Len(b) THEN Fail
  ELSE LET n == DecInt32(b, p)
       IN IF p + 3 + n > Len(b) THEN Fail
          ELSE LET e == decode(SubSeq(b, p + 4, p + 3 + n))
               IN IF ~e.ok THEN Fail ELSE ReadElems(b, p + 4 + n, Append(acc, e.packet))
decode(b) ==
  IF b = <<>> THEN Fail
  ELSE IF b[1] = 47 THEN DecodeMessage(b)
  ELSE IF b[1] = 35
       THEN LET h == ReadStr(b, 1)
            IN IF ~h.ok \/ h.str # BundleTag \/ h.next + 7 > Len(b) THEN Fail
               ELSE LET r == ReadElems(b, h.next + 8, <<>>)
                    IN IF ~r.ok THEN Fail
                       ELSE [ok |-> TRUE,
                             packet |-> OscBundle(<<DecInt32(b, h.next), DecInt32(b, h.next + 4)>>,
                                                  r.content)]
  ELSE Fail

\* ------------------------------------------------------------ error values

\* error.rs: Error::Io(io::Error) and Error::Osc(rosc::OscError).
Ok == [ok |-> TRUE]
ErrIo(kind) == [ok |-> FALSE, err |-> [variant |-> "Io", kind |-> kind]]
ErrOsc == [ok |-> FALSE, err |-> [variant |-> "Osc"]]
\* impl From<rosc::OscError> for Error
FromOscError(r) == ErrOsc
\* #[from] std::io::Error
FromIoError(kind) == ErrIo(kind)

\* ------------------------------------------------- conversions (message.rs)

\* rosc's From<i32> / From<&str> for OscType.
IntoOscType(v) == IF v.ty = "i32" THEN OscInt(v.v) ELSE OscString(v.v)
\* Mutant of into_osc_args: the elements converted in reverse order.
into_osc_args_reversed(a) ==
  IF a.form = "OscType" THEN <<a.val>>
  ELSE [i \in 1..Len(a.vals) |-> IntoOscType(a.vals[Len(a.vals) + 1 - i])]
\* IntoOscArgs: Vec<T> and the 1-, 2-, 3-tuples convert every element in
\* order; a single OscType becomes a one-element list.
into_osc_args(a) ==
  IF a.form = "OscType" THEN <<a.val>>
  ELSE [i \in 1..Len(a.vals) |-> IntoOscType(a.vals[i])]
\* Mutant of OscMessage_new: no more than two arguments are kept.
OscMessage_new_two(addr, args) ==
  OscMessage(addr, SubSeq(into_osc_args(args), 1, Min(2, Len(into_osc_args(args)))))
\* OscMessageExt::new
OscMessage_new(addr, args) == OscMessage(addr, into_osc_args(args))
\* IntoOscMessage for (S, A)
into_osc_message(p) == OscMessage_new(p.addr, p.args)
\* IntoOscPacket for OscMessage, OscBundle, OscPacket and T: IntoOscMessage
into_osc_packet(p) ==
  IF p.form = "Message" THEN p.msg
  ELSE IF p.form = "Bundle" THEN p.bundle
  ELSE IF p.form = "Packet" THEN p.packet
  ELSE into_osc_message(p)

\* ----------------------------------------------------------- the scenario

Sock == {"A", "B"}
LocalAddr(s) == IF s = "A" THEN "X" ELSE "Y"
Foreign == "Z"
Addr == {LocalAddr(s) : s \in Sock} \cup {Foreign}
\* The sockets whose owner calls connect and sender(): "A" is the client of
\* the exchange, "B" answers with send_to.
Clients == {"A"}

I32(v) == [ty |-> "i32", v |-> v]
Str(v) == [ty |-> "str", v |-> v]
\* What callers pass to send and send_to.
PairLike == [form |-> "Pair", addr |-> <<47, 97>>,
             args |-> [form |-> "Tuple", vals |-> <<I32(1), Str(<<117>>)>>]]
MessageLike == [form |-> "Message",
                msg |-> OscMessage(<<47, 98>>, <<OscString(<<117, 118, 119, 120>>)>>)]
OpaqueLike == [form |-> "Message", msg |-> OscMessage(<<47, 99>>, <<OscOpaque>>)]
PacketLikes == {PairLike, MessageLike, OpaqueLike}
\* A datagram from the foreign endpoint that is no OSC packet: "/a" with
\* neither terminator nor type tags.
Malformed == <<47, 97>>
ForeignDgrams == {Malformed}
\* The values the conversions are tried on. Arguments: the 1-, 2- and
\* 3-tuples and the Vecs of native values, chosen by index, and a single
\* OscType.
NativeVals == <<I32(0), I32(1), Str(<<117>>)>>
TupleArities == 1..3
Picks(lens) == UNION {[1..n -> 1..Len(NativeVals)] : n \in lens}
Natives(f) == [i \in DOMAIN f |-> NativeVals[f[i]]]
ConvAddrs == {<<47, 97>>, <<47, 98, 99>>}
ConvPackets ==
  {MessageLike.msg, OscBundle(<<0, 1>>, <<>>), OscBundle(<<0, 1>>, <<MessageLike.msg>>)}

\* Datagrams for the receiver alone: no packet; the 8 bytes of "/a" without
\* arguments; the 16 bytes of PairLike; and a bundle longer than the buffer,
\* whatever the buffer's capacity.
ShortDgram == encode(OscMessage(<<47, 97>>, <<>>)).bytes
LongDgram == encode(into_osc_packet(PairLike)).bytes
Oversized ==
  encode(OscBundle(<<0, 1>>, <<OscMessage(<<47, 97>>, <<OscString([i \in 1..BufCap |-> 117])>>)>>)).bytes
RecvDgrams == {Malformed, ShortDgram, LongDgram, Oversized}
\* What the transport may answer to a transmit call.
SendOutcomes == {"full", "short", "err"}

\* ------------------------------------------------------------------ state

VARIABLES
  conn,         \* conn[s]: the peer the UDP socket is connected to, or None
  rxq,          \* rxq[s]: what the transport holds ready for recv_from, in order
  fut,          \* fut[s]: UdpSocketStream.fut, the in-progress receive (its buffer)
  buf,          \* buf[s]: UdpSocketStream.buf, the stored receive buffer
  panicked,     \* panicked[s]: a poll of s's stream panicked
  senders,      \* senders[s]: live OscSender handles minted from s
  outstanding,  \* outstanding[s]: receive operations issued on the transport, not completed
  done,         \* done[s]: the transport's completed receives, in order
  recvd,        \* recvd[s]: what UdpSocketStream::poll_next yielded, in order
  items,        \* items[s]: what OscSocket::poll_next yielded, in order
  lastSend,     \* the send or send_to that just returned, or None
  observe,      \* whether lastSend is being recorded in this run
  sockAlive,    \* sockAlive[s]: the OscSocket (and its UdpSocketStream) is not dropped
  strong,       \* strong[s]: strong count of the Arc<UdpSocket>; the socket closes at 0
  cancelled,    \* cancelled[s]: dropping s's socket cancelled a receive in flight
  conv          \* a value at a send call site and, once converted, its OscPacket

vars == <<conn, rxq, fut, buf, panicked, senders, outstanding, done, recvd, items,
          lastSend, observe, sockAlive, strong, cancelled, conv>>

\* ---------------------------------------------------- transport (UdpSocket)

\* recv_from(&mut buf): Pending while nothing is ready; an error; or the
\* datagram written to the front of buf, cut to buf's length.
UdpSocket_recv_from(q, b) ==
  IF q = <<>> THEN [poll |-> "Pending"]
  ELSE IF Head(q).kind = "err" THEN [poll |-> "Ready", ok |-> FALSE, kind |-> Head(q).errkind]
  ELSE LET d == Head(q).data
           n == Min(Len(d), Len(b))
       IN [poll |-> "Ready", ok |-> TRUE, n |-> n, addr |-> Head(q).from,
           buf |-> [i \in 1..Len(b) |-> IF i <= n THEN d[i] ELSE b[i]]]

\* What one transmit call does, by the outcome the transport chooses: the
\* byte count it reports and the datagram it puts on the wire.
Transmit(dst, bytes, out) ==
  IF out = "err" THEN [ok |-> FALSE, kind |-> "Other", tx |-> None]
  ELSE LET n == IF out = "short" THEN Len(bytes) - 1 ELSE Len(bytes)
       IN [ok |-> TRUE, n |-> n, tx |-> Some([dst |-> dst, data |-> SubSeq(bytes, 1, n)])]
\* send(buf): to the connected peer; fails when the socket is not connected.
UdpSocket_send(c, bytes, out) ==
  IF ~c.some THEN [ok |-> FALSE, kind |-> "NotConnected", tx |-> None]
  ELSE Transmit(c.val, bytes, out)
\* send_to(buf, addr)
UdpSocket_send_to(c, bytes, addr, out) == Transmit(addr, bytes, out)

\* ------------------------------------------------ UdpSocketStream (udp.rs)

\* from_arc: a fresh buffer, no receive in progress.
from_arc == [fut |-> None, buf |-> Some(Zeros(BufCap))]
\* new: the socket goes into a new Arc, which the stream holds.
UdpSocketStream_new == [fut |-> from_arc.fut, buf |-> from_arc.buf, strong |-> 1]

\* Mutant of recv_next: a datagram that fills the buffer is an error.
recv_next_rejects_full(q, b) ==
  LET res == UdpSocket_recv_from(q, b)
  IN IF res.poll = "Pending" THEN [poll |-> "Pending"]
     ELSE IF ~res.ok THEN [poll |-> "Ready", ok |-> FALSE, kind |-> res.kind]
     ELSE IF res.n = Len(b) THEN [poll |-> "Ready", ok |-> FALSE, kind |-> "InvalidData"]
     ELSE [poll |-> "Ready", ok |-> TRUE, buf |-> res.buf, n |-> res.n, addr |-> res.addr]
\* recv_next(socket, buf): the future owns buf and hands it back on success.
recv_next(q, b) ==
  LET res == UdpSocket_recv_from(q, b)
  IN IF res.poll = "Pending" THEN [poll |-> "Pending"]
     ELSE IF ~res.ok THEN [poll |-> "Ready", ok |-> FALSE, kind |-> res.kind]
     ELSE [poll |-> "Ready", ok |-> TRUE, buf |-> res.buf, n |-> res.n, addr |-> res.addr]

\* Mutant of StartRecv: no check for a future in progress; every poll
\* starts a receive, with the stored buffer or a new one.
StartRecvAlways(st) ==
  [fut |-> Some(IF st.buf.some THEN st.buf.val ELSE Zeros(BufCap)), buf |-> None,
   issued |-> 1, panic |-> FALSE]
\* Mutant of StartRecv: the receive gets a copy, the buffer stays stored.
StartRecvKeepsBuf(st) ==
  IF st.fut = None
  THEN IF st.buf = None
       THEN [fut |-> st.fut, buf |-> st.buf, issued |-> 0, panic |-> TRUE]
       ELSE [fut |-> Some(st.buf.val), buf |-> st.buf, issued |-> 1, panic |-> FALSE]
  ELSE [fut |-> st.fut, buf |-> st.buf, issued |-> 0, panic |-> FALSE]
\* Mutant of StartRecv: every receive gets a newly allocated buffer.
StartRecvFresh(st) ==
  IF st.fut = None
  THEN IF st.buf = None
       THEN [fut |-> st.fut, buf |-> st.buf, issued |-> 0, panic |-> TRUE]
       ELSE [fut |-> Some(Zeros(BufCap)), buf |-> None, issued |-> 1, panic |-> FALSE]
  ELSE [fut |-> st.fut, buf |-> st.buf, issued |-> 0, panic |-> FALSE]
\* poll_next, lines 67-71: without a future in progress, take the buffer
\* (unwrap panics on None) and start a receive with it.
StartRecv(st) ==
  IF st.fut = None
  THEN IF st.buf = None
       THEN [fut |-> st.fut, buf |-> st.buf, issued |-> 0, panic |-> TRUE]
       ELSE [fut |-> Some(st.buf.val), buf |-> None, issued |-> 1, panic |-> FALSE]
  ELSE [fut |-> st.fut, buf |-> st.buf, issued |-> 0, panic |-> FALSE]

\* Mutant of RecvItem: the whole buffer is yielded.
RecvItemWholeBuf(res) ==
  IF ~res.ok THEN [ok |-> FALSE, kind |-> res.kind]
  ELSE [ok |-> TRUE, data |-> res.buf, addr |-> res.addr]
\* Mutant of RecvItem: the payload cut one byte short.
RecvItemOffByOne(res) ==
  IF ~res.ok THEN [ok |-> FALSE, kind |-> res.kind]
  ELSE [ok |-> TRUE, data |-> SubSeq(res.buf, 1, res.n - 1), addr |-> res.addr]
\* poll_next, lines 76-83: the item of a completed receive.
RecvItem(res) ==
  IF ~res.ok THEN [ok |-> FALSE, kind |-> res.kind]
  ELSE [ok |-> TRUE, data |-> SubSeq(res.buf, 1, res.n), addr |-> res.addr]
\* Mutant of BufAfter: the buffer is not handed back after a success.
BufAfterForgotten(w, res) == w.buf
\* poll_next, lines 75-83: the buffer stored after a completed receive.
BufAfter(w, res) == IF res.ok THEN Some(res.buf) ELSE w.buf

\* Mutant of clone_inner: the socket handed out without a new reference.
clone_inner_borrowed(count) == count
\* clone_inner: the strong count of the Arc after self.socket.clone().
clone_inner(count) == count + 1

\* Mutant of UdpSocketStream_drop: the receive in flight lives on, detached,
\* with its reference and its buffer.
UdpSocketStream_drop_detached(st) ==
  [fut |-> st.fut, buf |-> None, released |-> 1, cancelled |-> 0]
\* Dropping the stream drops its fields: the Arc, the buffer, and the boxed
\* future with the Arc clone and the buffer it owns.
UdpSocketStream_drop(st) ==
  [fut |-> None, buf |-> None,
   released |-> 1 + (IF st.fut.some THEN 1 ELSE 0),
   cancelled |-> IF st.fut.some THEN 1 ELSE 0]

\* Mutant of UdpSocketStream_poll_next: a failed receive ends the stream.
UdpSocketStream_poll_next_ends(st, q) ==
  LET w == StartRecv(st)
  IN IF w.panic
     THEN [fut |-> st.fut, buf |-> st.buf, panic |-> TRUE, issued |-> 0,
           completed |-> FALSE, out |-> [poll |-> "Panic"]]
     ELSE LET res == recv_next(q, w.fut.val)
          IN IF res.poll = "Pending"
             THEN [fut |-> w.fut, buf |-> w.buf, panic |-> FALSE, issued |-> w.issued,
                   completed |-> FALSE, out |-> [poll |-> "Pending"]]
             ELSE [fut |-> None, buf |-> BufAfter(w, res), panic |-> FALSE,
                   issued |-> w.issued, completed |-> TRUE,
                   out |-> [poll |-> "Ready",
                            item |-> IF res.ok THEN Some(RecvItem(res)) ELSE None]]
\* impl Stream for UdpSocketStream: poll_next against receive queue q.
UdpSocketStream_poll_next(st, q) ==
  LET w == StartRecv(st)
  IN IF w.panic
     THEN [fut |-> st.fut, buf |-> st.buf, panic |-> TRUE, issued |-> 0,
           completed |-> FALSE, out |-> [poll |-> "Panic"]]
     ELSE LET res == recv_next(q, w.fut.val)
          IN IF res.poll = "Pending"
             THEN [fut |-> w.fut, buf |-> w.buf, panic |-> FALSE, issued |-> w.issued,
                   completed |-> FALSE, out |-> [poll |-> "Pending"]]
             ELSE [fut |-> None, buf |-> BufAfter(w, res), panic |-> FALSE,
                   issued |-> w.issued, completed |-> TRUE,
                   out |-> [poll |-> "Ready", item |-> Some(RecvItem(res))]]

\* ------------------------------------------------------ OscSocket (osc.rs)

\* Mutant of AdaptItem: a decode failure wrapped as an IO error.
AdaptItemWrapsDecode(packet) ==
  IF ~packet.some THEN None
  ELSE IF ~packet.val.ok THEN Some(FromIoError(packet.val.kind))
  ELSE LET d == decode(packet.val.data)
       IN IF d.ok THEN Some([ok |-> TRUE, packet |-> d.packet, addr |-> packet.val.addr])
          ELSE Some(FromIoError("InvalidData"))
\* Mutant of AdaptItem: a failed receive ends the stream.
AdaptItemEndsOnError(packet) ==
  IF ~packet.some THEN None
  ELSE IF ~packet.val.ok THEN None
  ELSE LET d == decode(packet.val.data)
       IN IF d.ok THEN Some([ok |-> TRUE, packet |-> d.packet, addr |-> packet.val.addr])
          ELSE Some(FromOscError(d))
\* impl Stream for OscSocket, lines 141-149: None stays None, an IO error is
\* converted, a datagram is decoded and paired with its sender on success.
AdaptItem(packet) ==
  IF ~packet.some THEN None
  ELSE IF ~packet.val.ok THEN Some(FromIoError(packet.val.kind))
  ELSE LET d == decode(packet.val.data)
       IN IF d.ok THEN Some([ok |-> TRUE, packet |-> d.packet, addr |-> packet.val.addr])
          ELSE Some(FromOscError(d))

\* impl Stream for OscSocket: poll_next.
OscSocket_poll_next(st, q) ==
  LET r == UdpSocketStream_poll_next(st, q)
  IN IF r.out.poll = "Ready"
     THEN [r |-> r, message |-> [poll |-> "Ready", item |-> AdaptItem(r.out.item)]]
     ELSE [r |-> r, message |-> r.out]

\* Mutant of check_len: only a count beyond the length is an error.
check_len_lenient(bytes, len) == IF len > Len(bytes) THEN ErrIo("Interrupted") ELSE Ok
\* check_len
check_len(bytes, len) == IF len # Len(bytes) THEN ErrIo("Interrupted") ELSE Ok

\* The outcome of a send: the result handed to the caller, the encoded
\* length, the transport's answer and the datagram put on the wire.
SendReturn(result, enc, io) ==
  [result |-> result,
   bytes |-> IF enc.ok THEN enc.bytes ELSE <<>>,
   enc |-> IF enc.ok THEN Some(Len(enc.bytes)) ELSE None,
   io |-> IF io.some THEN Some([ok |-> io.val.ok, n |-> IF io.val.ok THEN io.val.n ELSE 0]) ELSE None,
   tx |-> IF io.some THEN io.val.tx ELSE None]
SendFinish(enc, io) ==
  IF ~io.ok THEN SendReturn(FromIoError(io.kind), enc, Some(io))
  ELSE SendReturn(check_len(enc.bytes, io.n), enc, Some(io))

\* Mutant of OscSocket_send: a failed transmit counts as a full one.
OscSocket_send_unchecked(c, packet, out) ==
  LET enc == encode(into_osc_packet(packet))
      io == UdpSocket_send(c, enc.bytes, out)
  IN IF ~enc.ok THEN SendReturn(FromOscError(enc), enc, None)
     ELSE SendReturn(check_len(enc.bytes, IF io.ok THEN io.n ELSE Len(enc.bytes)), enc, Some(io))
\* OscSocket::send
OscSocket_send(c, packet, out) ==
  LET enc == encode(into_osc_packet(packet))
  IN IF ~enc.ok THEN SendReturn(FromOscError(enc), enc, None)
     ELSE SendFinish(enc, UdpSocket_send(c, enc.bytes, out))
\* Mutant of OscSocket_send_to: the transmit is issued before the encode
\* result is looked at.
OscSocket_send_to_eager(c, packet, addrs, out) ==
  LET enc == encode(into_osc_packet(packet))
      io == UdpSocket_send_to(c, IF enc.ok THEN enc.bytes ELSE <<>>, addrs, out)
  IN IF ~enc.ok THEN SendReturn(FromOscError(enc), enc, Some(io))
     ELSE SendFinish(enc, io)
\* OscSocket::send_to
OscSocket_send_to(c, packet, addrs, out) ==
  LET enc == encode(into_osc_packet(packet))
  IN IF ~enc.ok THEN SendReturn(FromOscError(enc), enc, None)
     ELSE SendFinish(enc, UdpSocket_send_to(c, enc.bytes, addrs, out))
\* Mutant of OscSender_send: the count sent is not checked.
OscSender_send_nocheck(c, packet, out) ==
  LET enc == encode(into_osc_packet(packet))
      io == UdpSocket_send(c, enc.bytes, out)
  IN IF ~enc.ok THEN SendReturn(FromOscError(enc), enc, None)
     ELSE IF ~io.ok THEN SendReturn(FromIoError(io.kind), enc, Some(io))
     ELSE SendReturn(Ok, enc, Some(io))
\* OscSender::send
OscSender_send(c, packet, out) ==
  LET enc == encode(into_osc_packet(packet))
  IN IF ~enc.ok THEN SendReturn(FromOscError(enc), enc, None)
     ELSE SendFinish(enc, UdpSocket_send(c, enc.bytes, out))
\* Mutant of OscSender_send_to: the address is dropped and send is called.
OscSender_send_to_connected(c, packet, addrs, out) ==
  LET enc == encode(into_osc_packet(packet))
  IN IF ~enc.ok THEN SendReturn(FromOscError(enc), enc, None)
     ELSE SendFinish(enc, UdpSocket_send(c, enc.bytes, out))
\* OscSender::send_to
OscSender_send_to(c, packet, addrs, out) ==
  LET enc == encode(into_osc_packet(packet))
  IN IF ~enc.ok THEN SendReturn(FromOscError(enc), enc, None)
     ELSE SendFinish(enc, UdpSocket_send_to(c, enc.bytes, addrs, out))

\* ---------------------------------------------------------------- network

\* Everything the network has handed to the receive queues so far.
Total == Len(done["A"]) + Len(rxq["A"]) + Len(done["B"]) + Len(rxq["B"])
Budget == IF observe THEN MaxObserved ELSE MaxDgrams

\* A socket accepts a datagram from `from` when unconnected or connected to it.
Accepts(t, from) == conn[t] = None \/ conn[t] = Some(from)

\* Whether datagram tx of `bytes`, sent from address `from`, can reach the
\* receive queue of socket t. A datagram the transport reported as sent
\* short is not delivered.
Reaches(tx, bytes, from, t) ==
  /\ tx.some
  /\ tx.val.data = bytes
  /\ tx.val.dst = LocalAddr(t)
  /\ Accepts(t, from)
  /\ Total < Budget

\* The receive queues after the datagram went on the wire; `like` is what
\* the sender passed to send.
Routed(tx, bytes, s, like) ==
  [t \in Sock |->
     IF Reaches(tx, bytes, LocalAddr(s), t)
     THEN Append(rxq[t], [kind |-> "dgram", data |-> tx.val.data, from |-> LocalAddr(s),
                          sent |-> Some([like |-> like, by |-> s])])
     ELSE rxq[t]]

\* ---------------------------------------------------------------- actions

InitWith(obs) ==
  /\ conn = [s \in Sock |-> None]
  /\ rxq = [s \in Sock |-> <<>>]
  /\ fut = [s \in Sock |-> from_arc.fut]
  /\ buf = [s \in Sock |-> from_arc.buf]
  /\ panicked = [s \in Sock |-> FALSE]
  /\ senders = [s \in Sock |-> 0]
  /\ outstanding = [s \in Sock |-> 0]
  /\ done = [s \in Sock |-> <<>>]
  /\ recvd = [s \in Sock |-> <<>>]
  /\ items = [s \in Sock |-> <<>>]
  /\ lastSend = None
  /\ observe = obs
  /\ sockAlive = [s \in Sock |-> TRUE]
  /\ strong = [s \in Sock |-> UdpSocketStream_new.strong]
  /\ cancelled = [s \in Sock |-> FALSE]

Init == InitWith(FALSE) /\ conv = None
InitSend == InitWith(TRUE) /\ conv = None
\* A value of one of the types send and send_to take, not yet converted.
InitConv ==
  /\ InitWith(FALSE)
  /\ \/ \E a \in ConvAddrs : \E f \in Picks(TupleArities) :
          conv = Some([in |-> [form |-> "Pair", addr |-> a,
                               args |-> [form |-> "Tuple", vals |-> Natives(f)]],
                       out |-> None])
     \/ \E a \in ConvAddrs : \E f \in Picks(0..MaxVec) :
          conv = Some([in |-> [form |-> "Pair", addr |-> a,
                               args |-> [form |-> "Vec", vals |-> Natives(f)]],
                       out |-> None])
     \/ \E a \in ConvAddrs : \E t \in {OscInt(7), OscString(<<117>>)} :
          conv = Some([in |-> [form |-> "Pair", addr |-> a,
                               args |-> [form |-> "OscType", val |-> t]],
                       out |-> None])
     \/ \E m \in {MessageLike.msg, OpaqueLike.msg} :
          conv = Some([in |-> [form |-> "Message", msg |-> m], out |-> None])
     \/ \E b \in {q \in ConvPackets : q.kind = "Bundle"} :
          conv = Some([in |-> [form |-> "Bundle", bundle |-> b], out |-> None])
     \/ \E q \in ConvPackets :
          conv = Some([in |-> [form |-> "Packet", packet |-> q], out |-> None])

\* send / send_to, first step: packet.into_osc_packet().
Convert ==
  /\ conv.some /\ ~conv.val.out.some
  /\ conv' = Some([in |-> conv.val.in, out |-> Some(into_osc_packet(conv.val.in))])
  /\ UNCHANGED <<conn, rxq, fut, buf, panicked, senders, outstanding, done, recvd, items,
                 lastSend, observe, sockAlive, strong, cancelled>>

\* The sender handles kept per socket. Where the returns are not recorded a
\* sender's send cannot be told from the socket's, and one sender stands for
\* all of them.
SenderCap == IF observe THEN MaxSenders ELSE 1

\* OscSocket::connect(addrs) succeeds.
Connect(s, a) ==
  /\ sockAlive[s] /\ ~panicked[s]
  /\ conn' = [conn EXCEPT ![s] = Some(a)]
  /\ lastSend' = None
  /\ UNCHANGED <<rxq, fut, buf, panicked, senders, outstanding, done, recvd, items, observe,
                 sockAlive, strong, cancelled, conv>>

\* OscSocket::sender()
MintSender(s) ==
  /\ sockAlive[s] /\ ~panicked[s]
  /\ senders[s] < SenderCap
  /\ senders' = [senders EXCEPT ![s] = @ + 1]
  /\ strong' = [strong EXCEPT ![s] = clone_inner(@)]
  /\ lastSend' = None
  /\ UNCHANGED <<conn, rxq, fut, buf, panicked, outstanding, done, recvd, items, observe,
                 sockAlive, cancelled, conv>>

\* OscSender::clone (derived): one more handle on the same Arc.
CloneSender(s) ==
  /\ senders[s] > 0
  /\ senders[s] < SenderCap
  /\ senders' = [senders EXCEPT ![s] = @ + 1]
  /\ strong' = [strong EXCEPT ![s] = @ + 1]
  /\ lastSend' = None
  /\ UNCHANGED <<conn, rxq, fut, buf, panicked, outstanding, done, recvd, items, observe,
                 sockAlive, cancelled, conv>>

\* An OscSender is dropped.
DropSender(s) ==
  /\ senders[s] > 0
  /\ senders' = [senders EXCEPT ![s] = @ - 1]
  /\ strong' = [strong EXCEPT ![s] = @ - 1]
  /\ lastSend' = None
  /\ UNCHANGED <<conn, rxq, fut, buf, panicked, outstanding, done, recvd, items, observe,
                 sockAlive, cancelled, conv>>

\* The OscSocket is dropped, and with it the UdpSocketStream it owns.
DropSocket(s) ==
  /\ sockAlive[s]
  /\ LET d == UdpSocketStream_drop([fut |-> fut[s], buf |-> buf[s]])
     IN /\ fut' = [fut EXCEPT ![s] = d.fut]
        /\ buf' = [buf EXCEPT ![s] = d.buf]
        /\ strong' = [strong EXCEPT ![s] = @ - d.released]
        /\ outstanding' = [outstanding EXCEPT ![s] = @ - d.cancelled]
        /\ cancelled' = [cancelled EXCEPT ![s] = d.cancelled = 1]
  /\ sockAlive' = [sockAlive EXCEPT ![s] = FALSE]
  /\ lastSend' = None
  /\ UNCHANGED <<conn, rxq, panicked, senders, done, recvd, items, observe, conv>>

\* Mutant of Sent: the packet is encoded into the receiver's stored buffer.
SentThroughRecvBuf(s, via, op, a, p, r) ==
  /\ rxq' \in {Routed(r.tx, r.bytes, s, p), rxq}
  /\ buf' = [buf EXCEPT ![s] = IF @.some /\ r.enc.some
                                THEN Some([i \in 1..Len(@.val) |->
                                             IF i <= Len(r.bytes) THEN r.bytes[i] ELSE @.val[i]])
                                ELSE @]
  /\ lastSend' = IF observe
                 THEN Some([sock |-> s, via |-> via, op |-> op, addr |-> a, conn |-> conn[s],
                            rx |-> [fut |-> fut[s], buf |-> buf[s]],
                            result |-> r.result, enc |-> r.enc, io |-> r.io,
                            dst |-> IF r.tx.some THEN Some(r.tx.val.dst) ELSE None])
                 ELSE None
  /\ UNCHANGED <<conn, fut, panicked, senders, outstanding, done, recvd, items, observe,
                 sockAlive, strong, cancelled, conv>>
\* A send (a = None) or send_to (a = Some(address)) of p returned r to its
\* caller; the datagram, if one went out, arrives or is lost.
Sent(s, via, op, a, p, r) ==
  /\ rxq' \in {Routed(r.tx, r.bytes, s, p), rxq}
  /\ lastSend' = IF observe
                 THEN Some([sock |-> s, via |-> via, op |-> op, addr |-> a, conn |-> conn[s],
                            rx |-> [fut |-> fut[s], buf |-> buf[s]],
                            result |-> r.result, enc |-> r.enc, io |-> r.io,
                            dst |-> IF r.tx.some THEN Some(r.tx.val.dst) ELSE None])
                 ELSE None
  /\ UNCHANGED <<conn, fut, buf, panicked, senders, outstanding, done, recvd, items, observe,
                 sockAlive, strong, cancelled, conv>>

SocketSend(s, p, out) ==
  /\ sockAlive[s] /\ ~panicked[s]
  /\ Sent(s, "socket", "send", None, p, OscSocket_send(conn[s], p, out))
SocketSendTo(s, p, a, out) ==
  /\ sockAlive[s] /\ ~panicked[s]
  /\ Sent(s, "socket", "send_to", Some(a), p, OscSocket_send_to(conn[s], p, a, out))
SenderSend(s, p, out) ==
  /\ senders[s] > 0
  /\ Sent(s, "sender", "send", None, p, OscSender_send(conn[s], p, out))
SenderSendTo(s, p, a, out) ==
  /\ senders[s] > 0
  /\ Sent(s, "sender", "send_to", Some(a), p, OscSender_send_to(conn[s], p, a, out))

\* One pull on s's stream: OscSocket::poll_next, with the poll of the
\* UdpSocketStream it wraps.
Poll(s) ==
  /\ sockAlive[s] /\ ~panicked[s]
  /\ LET m == OscSocket_poll_next([fut |-> fut[s], buf |-> buf[s]], rxq[s])
         r == m.r
     IN /\ fut' = [fut EXCEPT ![s] = r.fut]
        /\ buf' = [buf EXCEPT ![s] = r.buf]
        /\ panicked' = [panicked EXCEPT ![s] = r.panic]
        /\ outstanding' = [outstanding EXCEPT ![s] = @ + r.issued - (IF r.completed THEN 1 ELSE 0)]
        /\ strong' = [strong EXCEPT ![s] = @ + r.issued - (IF r.completed THEN 1 ELSE 0)]
        /\ rxq' = [rxq EXCEPT ![s] = IF r.completed THEN Tail(@) ELSE @]
        /\ done' = [done EXCEPT ![s] = IF r.completed THEN Append(@, Head(rxq[s])) ELSE @]
        /\ recvd' = [recvd EXCEPT ![s] = IF r.out.poll = "Ready" THEN Append(@, r.out.item) ELSE @]
        /\ items' = [items EXCEPT ![s] = IF m.message.poll = "Ready" THEN Append(@, m.message.item) ELSE @]
  /\ lastSend' = None
  /\ UNCHANGED <<conn, senders, observe, sockAlive, cancelled, conv>>

\* The foreign endpoint sends datagram d to s.
ForeignDgram(s, d) ==
  /\ Total < Budget
  /\ Accepts(s, Foreign)
  /\ rxq' = [rxq EXCEPT ![s] = Append(@, [kind |-> "dgram", data |-> d, from |-> Foreign, sent |-> None])]
  /\ lastSend' = None
  /\ UNCHANGED <<conn, fut, buf, panicked, senders, outstanding, done, recvd, items, observe,
                 sockAlive, strong, cancelled, conv>>

\* The transport has an error for s's next recv_from (an ICMP error turned
\* into ECONNREFUSED, a reset, ...).
RecvError(s) ==
  /\ Total < Budget
  /\ rxq' = [rxq EXCEPT ![s] = Append(@, [kind |-> "err", errkind |-> "ConnectionRefused"])]
  /\ lastSend' = None
  /\ UNCHANGED <<conn, fut, buf, panicked, senders, outstanding, done, recvd, items, observe,
                 sockAlive, strong, cancelled, conv>>

\* The transport answers tried at a send. Where the returns are not recorded
\* a short or failed transmit delivers nothing and so equals a lost datagram:
\* the full answer with its loss covers them.
Outcomes == IF observe THEN SendOutcomes ELSE {"full"}

\* The calls of the library: connect, sender(), the four sends, a pull.
NextCalls ==
  \/ \E s \in Clients : \E a \in Addr \ {LocalAddr(s)} : Connect(s, a)
  \/ \E s \in Clients : MintSender(s)
  \/ \E s \in Sock : \E p \in PacketLikes : \E out \in Outcomes : SocketSend(s, p, out)
  \/ \E s \in Sock : \E p \in PacketLikes : \E a \in Addr \ {LocalAddr(s)} :
       \E out \in Outcomes : SocketSendTo(s, p, a, out)
  \/ \E s \in Sock : \E p \in PacketLikes : \E out \in Outcomes : SenderSend(s, p, out)
  \/ \E s \in Sock : \E p \in PacketLikes : \E a \in Addr \ {LocalAddr(s)} :
       \E out \in Outcomes : SenderSendTo(s, p, a, out)
  \/ \E s \in Sock : Poll(s)

\* The handles of a client's socket over their lifetime: senders minted,
\* cloned and dropped, the socket polled and dropped, the senders sending.
NextLife ==
  \/ \E s \in Clients : \E a \in Addr \ {LocalAddr(s)} : Connect(s, a)
  \/ \E s \in Clients : MintSender(s)
  \/ \E s \in Clients : CloneSender(s)
  \/ \E s \in Clients : DropSender(s)
  \/ \E s \in Clients : DropSocket(s)
  \/ \E s \in Clients : Poll(s)
  \/ \E s \in Clients : \E p \in PacketLikes : \E out \in Outcomes : SenderSend(s, p, out)
  \/ \E s \in Clients : \E p \in PacketLikes : \E a \in Addr \ {LocalAddr(s)} :
       \E out \in Outcomes : SenderSendTo(s, p, a, out)

\* The receive path alone: datagrams of every length and receive errors
\* come in, the streams are pulled.
NextRecv ==
  \/ \E s \in Sock : \E d \in RecvDgrams : ForeignDgram(s, d)
  \/ \E s \in Sock : RecvError(s)
  \/ \E s \in Sock : Poll(s)

\* The calls, and what else the network does to the receive queues.
Next ==
  \/ NextCalls
  \/ \E s \in Sock : \E d \in ForeignDgrams : ForeignDgram(s, d)
  \/ \E s \in Sock : RecvError(s)

\* The whole system; what the sends return is not recorded.
Spec == Init /\ [][Next]_vars

\* The calls alone, with what every send returned recorded in lastSend.
SpecSend == InitSend /\ [][NextCalls]_vars

\* The conversion at the send call site, for every kind of value.
SpecConv == InitConv /\ [][Convert]_vars

\* The receivers, fed by the network only.
SpecRecv == Init /\ [][NextRecv]_vars

\* The lifetime of the handles, the sends recorded.
SpecLife == InitSend /\ [][NextLife]_vars

\* ----------------------------------------------------------------- claims

\* The bytes recv_from can hand over for datagram d: d, cut to the buffer.
Received(d) == SubSeq(d.data, 1, Min(Len(d.data), BufCap))
\* Completed receive e is a datagram that decodes / that does not.
WellFormed(e) == e.kind = "dgram" /\ decode(Received(e)).ok
Undecodable(e) == e.kind = "dgram" /\ ~decode(Received(e)).ok
\* Every completed receive has been yielded, by the receiver and the stream.
Aligned(s) == Len(recvd[s]) = Len(done[s]) /\ Len(items[s]) = Len(done[s])

\* C1: at most one receive operation is outstanding on a socket's transport
\* at any time, whatever the sequence of pulls, suspended ones included.
AtMostOneInFlight == \A s \in Sock : outstanding[s] <= 1
\* A receive is in flight (the pull suspended) after an earlier one completed.
AtMostOneInFlightWitness ==
  \E s \in Sock : outstanding[s] = 1 /\ fut[s].some /\ Len(done[s]) >= 1

\* C2: a failed receive leaves the stream pollable: no pull panics.
NoPullPanics == \A s \in Sock : ~panicked[s]

\* C3: an undecodable datagram is yielded as a decode error, the stream
\* goes on (it neither ends nor loses its buffer), and a well-formed datagram
\* completed after it is yielded as its packet and its sender.
StreamResilience ==
  \A s \in Sock :
    /\ Aligned(s)
    /\ \A i \in 1..Len(done[s]) :
         done[s][i].kind = "dgram" =>
           LET d == decode(Received(done[s][i]))
           IN items[s][i] = IF d.ok
                            THEN Some([ok |-> TRUE, packet |-> d.packet, addr |-> done[s][i].from])
                            ELSE Some(ErrOsc)
    /\ (done[s] # <<>> /\ done[s][Len(done[s])].kind = "dgram") =>
         /\ ~panicked[s]
         /\ fut[s].some # buf[s].some
\* A decode error item, then a well-formed datagram's item.
StreamResilienceWitness ==
  \E s \in Sock : \E i, j \in 1..Len(items[s]) :
    /\ i < j
    /\ Undecodable(done[s][i]) /\ items[s][i] = Some(ErrOsc)
    /\ WellFormed(done[s][j]) /\ items[s][j].some /\ items[s][j].val.ok

\* The sender address a stream item reports: only a success carries one
\* (error.rs: neither Error::Io nor Error::Osc holds an address).
ItemAddr(item) == IF item.some /\ item.val.ok THEN Some(item.val.addr) ELSE None

ShortSendDetection ==
  lastSend.some =>
    LET l == lastSend.val
        counted == l.io.some /\ l.io.val.ok
        full == counted /\ l.enc.some /\ l.io.val.n = l.enc.val
    IN /\ l.result.ok <=> full
       /\ (counted /\ ~full) => (~l.result.ok /\ l.result.err.variant = "Io")
\* A sender's send met a short count and failed with an IO error.
ShortSendWitness ==
  /\ lastSend.some
  /\ lastSend.val.via = "sender" /\ lastSend.val.op = "send"
  /\ lastSend.val.io.some /\ lastSend.val.io.val.ok
  /\ lastSend.val.io.val.n < lastSend.val.enc.val
  /\ lastSend.val.result = ErrIo("Interrupted")

\* What the caller meant to send: the address, and the values in order.
SentPacket(like) ==
  IF like.form = "Pair"
  THEN [kind |-> "Message", addr |-> like.addr,
        args |-> [i \in 1..Len(like.args.vals) |->
                    IF like.args.vals[i].ty = "i32"
                    THEN [t |-> "Int", int |-> like.args.vals[i].v]
                    ELSE [t |-> "String", str |-> like.args.vals[i].v]]]
  ELSE IF like.form = "Message" THEN like.msg
  ELSE IF like.form = "Bundle" THEN like.bundle
  ELSE like.packet

\* C6: a datagram one socket sent whole, once received by the socket it
\* was sent to, is yielded as exactly the packet sent and the sender's local
\* address.
RoundTrip ==
  \A t \in Sock :
    /\ Aligned(t)
    /\ \A i \in 1..Len(done[t]) :
         (done[t][i].kind = "dgram" /\ done[t][i].sent.some) =>
           items[t][i] = Some([ok |-> TRUE,
                               packet |-> SentPacket(done[t][i].sent.val.like),
                               addr |-> LocalAddr(done[t][i].sent.val.by)])
\* The connected "A" has sent, "B" has yielded it and answered with send_to,
\* and "A" has yielded the answer.
RoundTripWitness ==
  /\ conn["A"] = Some(LocalAddr("B"))
  /\ \E i \in 1..Len(items["B"]) :
       /\ done["B"][i].kind = "dgram" /\ done["B"][i].sent.some
       /\ done["B"][i].sent.val.by = "A"
       /\ items["B"][i].val.ok /\ items["B"][i].val.addr = "X"
  /\ \E j \in 1..Len(items["A"]) :
       /\ done["A"][j].kind = "dgram" /\ done["A"][j].sent.some
       /\ done["A"][j].sent.val.by = "B"
       /\ items["A"][j].val.ok /\ items["A"][j].val.addr = "Y"

\* C7: the receiver yields one item per completed receive, in the order
\* of completion: the i-th item is the i-th completion's payload and sender.
FifoDelivery ==
  \A s \in Sock :
    /\ Len(recvd[s]) = Len(done[s])
    /\ \A i \in 1..Len(done[s]) :
         recvd[s][i] = Some(IF done[s][i].kind = "err"
                            THEN [ok |-> FALSE, kind |-> done[s][i].errkind]
                            ELSE [ok |-> TRUE, data |-> Received(done[s][i]),
                                  addr |-> done[s][i].from])
\* Two different datagrams have been yielded by one receiver.
FifoDeliveryWitness ==
  \E s \in Sock :
    /\ Len(recvd[s]) >= 2
    /\ recvd[s][1].val.ok /\ recvd[s][2].val.ok
    /\ recvd[s][1] # recvd[s][2]

\* C8: a send without address transmits to the connected peer only; a
\* send_to transmits to the address given, connected or not; neither changes
\* the connected peer.
ConnectedAddressing ==
  lastSend.some =>
    LET l == lastSend.val
    IN /\ (l.op = "send" /\ l.dst.some) => (l.conn.some /\ l.dst = l.conn)
       /\ (l.op = "send_to" /\ l.io.some /\ l.io.val.ok) => l.dst = l.addr
       /\ conn[l.sock] = l.conn
\* A sender of the connected socket has sent to another address.
ConnectedAddressingWitness ==
  /\ lastSend.some
  /\ lastSend.val.via = "sender" /\ lastSend.val.op = "send_to"
  /\ lastSend.val.conn = Some("Y")
  /\ lastSend.val.addr = Some("Z") /\ lastSend.val.dst = Some("Z")

EndOnlyOnClosure ==
  \A s \in Sock :
    /\ Len(items[s]) = Len(recvd[s])
    /\ \A i \in 1..Len(recvd[s]) :
         /\ ~items[s][i].some => ~recvd[s][i].some
         /\ (recvd[s][i].some /\ ~recvd[s][i].val.ok) =>
              items[s][i] = Some(ErrIo(recvd[s][i].val.kind))
         /\ (recvd[s][i].some /\ recvd[s][i].val.ok /\ items[s][i] # Some(ErrOsc)) =>
              decode(recvd[s][i].val.data).ok
\* One stream has yielded a decode error item and an IO error item.
EndOnlyOnClosureWitness ==
  \E s \in Sock : \E i, j \in 1..Len(items[s]) :
    /\ items[s][i] = Some(ErrOsc)
    /\ items[s][j].some /\ ~items[s][j].val.ok /\ items[s][j].val.err.variant = "Io"

\* The handles on s's UdpSocket that are alive.
Handles(s) ==
  (IF sockAlive[s] THEN 1 ELSE 0) + senders[s] + (IF fut[s].some THEN 1 ELSE 0)

\* C11: the UdpSocket is not freed while the socket, a sender (minted or
\* cloned) or a receive in flight is alive, in whatever order they are
\* released; a sender's send finds the socket open once the OscSocket is gone.
SharedLifetime ==
  /\ \A s \in Sock : Handles(s) > 0 => strong[s] > 0
  /\ (lastSend.some /\ lastSend.val.via = "sender") => strong[lastSend.val.sock] > 0
\* A sender has sent in full after the OscSocket was dropped.
SharedLifetimeWitness ==
  /\ lastSend.some /\ lastSend.val.via = "sender" /\ lastSend.val.result.ok
  /\ ~sockAlive[lastSend.val.sock]
  /\ strong[lastSend.val.sock] = 1

\* C12: dropping the OscSocket cancels the receive in flight and releases
\* its reference: afterwards only the senders hold the UdpSocket, and it is
\* freed once they are dropped too.
NoLeakOnCancel ==
  \A s \in Sock :
    ~sockAlive[s] =>
      /\ fut[s] = None /\ outstanding[s] = 0
      /\ strong[s] = senders[s]
\* The socket was dropped with a receive in flight, the last sender after
\* it, and the UdpSocket is freed.
NoLeakOnCancelWitness ==
  \E s \in Sock : ~sockAlive[s] /\ cancelled[s] /\ senders[s] = 0 /\ strong[s] = 0

\* The receive buffer s's receiver holds: in its future, or stored.
HeldBuf(s) == IF fut[s].some THEN fut[s] ELSE buf[s]
\* What is in a buffer of BufCap zeros after the datagrams of es were
\* written to its front one after the other.
RECURSIVE Residue(_)
Residue(es) ==
  IF es = <<>> THEN [i \in 1..BufCap |-> 0]
  ELSE LET before == Residue(SubSeq(es, 1, Len(es) - 1))
           d == es[Len(es)].data
       IN [i \in 1..BufCap |-> IF i <= Len(d) THEN d[i] ELSE before[i]]
\* No receive of s has failed.
NoFailure(s) == \A i \in 1..Len(done[s]) : done[s][i].kind = "dgram"

\* C13: over any run of successful receives the receiver holds, and
\* passes to the next receive, the one buffer it was created with: of the
\* fixed capacity, and with what the earlier receives wrote still in it.
BufferReuse ==
  \A s \in Sock :
    NoFailure(s) =>
      /\ HeldBuf(s).some
      /\ Len(HeldBuf(s).val) = BufCap
      /\ HeldBuf(s).val = Residue(done[s])
\* After two successful receives the next receive is in flight, with the
\* buffer the two have written to.
BufferReuseWitness ==
  \E s \in Sock :
    /\ Len(done[s]) >= 2 /\ NoFailure(s)
    /\ fut[s].some
    /\ fut[s].val # [i \in 1..BufCap |-> 0]

\* C15: between pulls a receiver never holds both a stored buffer and a
\* receive in progress; while no receive has failed it holds exactly one of
\* them: Idle with the buffer, or Receiving with the buffer checked out.
ReceiverState ==
  \A s \in Sock :
    /\ ~(fut[s].some /\ buf[s].some)
    /\ (NoFailure(s) /\ sockAlive[s]) => (fut[s].some # buf[s].some)
\* Receiving again, the buffer checked out, after a completed receive.
ReceiverStateWitness ==
  \E s \in Sock : Len(done[s]) >= 1 /\ NoFailure(s) /\ fut[s].some /\ ~buf[s].some

\* C16: the payload of a successful receive is as long as the count the
\* receive reported and holds the bytes it wrote, whatever the capacity of
\* the buffer and whatever earlier receives left in it.
ExactPayload ==
  \A s \in Sock :
    /\ Len(recvd[s]) = Len(done[s])
    /\ \A i \in 1..Len(done[s]) :
         done[s][i].kind = "dgram" =>
           LET n == Min(Len(done[s][i].data), BufCap)
               item == recvd[s][i]
           IN /\ item.some /\ item.val.ok
              /\ Len(item.val.data) = n
              /\ \A k \in 1..n : item.val.data[k] = done[s][i].data[k]
\* A datagram has been yielded after a longer one, shorter than the buffer.
ExactPayloadWitness ==
  \E s \in Sock : \E i, j \in 1..Len(recvd[s]) :
    /\ i < j
    /\ done[s][i].kind = "dgram" /\ done[s][j].kind = "dgram"
    /\ Len(done[s][j].data) < Len(done[s][i].data)
    /\ Len(recvd[s][j].val.data) = Len(done[s][j].data)
    /\ Len(recvd[s][j].val.data) < BufCap

\* C20: of a datagram longer than the buffer the receiver yields the
\* first BufCap bytes and its sender, the stream item is whatever the decoder
\* makes of these bytes (a packet or a decode error, never an IO error), and
\* the buffer keeps its capacity.
OversizedTruncated ==
  \A s \in Sock :
    /\ HeldBuf(s).some => Len(HeldBuf(s).val) = BufCap
    /\ \A i \in 1..Len(done[s]) :
         (done[s][i].kind = "dgram" /\ Len(done[s][i].data) > BufCap) =>
           LET prefix == SubSeq(done[s][i].data, 1, BufCap)
               d == decode(prefix)
           IN /\ i <= Len(recvd[s]) /\ i <= Len(items[s])
              /\ recvd[s][i] = Some([ok |-> TRUE, data |-> prefix, addr |-> done[s][i].from])
              /\ items[s][i] = IF d.ok
                               THEN Some([ok |-> TRUE, packet |-> d.packet,
                                          addr |-> done[s][i].from])
                               ELSE Some(ErrOsc)
\* An oversized datagram has been yielded, cut to the buffer.
OversizedTruncatedWitness ==
  \E s \in Sock : \E i \in 1..Len(recvd[s]) :
    /\ done[s][i].kind = "dgram" /\ Len(done[s][i].data) > BufCap
    /\ recvd[s][i].val.ok /\ Len(recvd[s][i].val.data) = BufCap
    /\ items[s][i].some

\* Argument a is native value v, converted.
SameValue(a, v) ==
  IF v.ty = "i32" THEN a.t = "Int" /\ a.int = v.v ELSE a.t = "String" /\ a.str = v.v

\* C14: at the send call site an (address, args) pair becomes the message
\* with that address and with the values of a tuple or a sequence as its
\* arguments in their order, or the single OscType as its only argument; a
\* bare message, bundle or packet is the packet that is encoded.
Conversion ==
  (conv.some /\ conv.val.out.some) =>
    LET x == conv.val.in
        y == conv.val.out.val
    IN IF x.form = "Pair"
       THEN /\ y.kind = "Message"
            /\ y.addr = x.addr
            /\ IF x.args.form = "OscType"
               THEN y.args = <<x.args.val>>
               ELSE /\ Len(y.args) = Len(x.args.vals)
                    /\ \A i \in 1..Len(y.args) : SameValue(y.args[i], x.args.vals[i])
       ELSE y = (IF x.form = "Message" THEN x.msg
                 ELSE IF x.form = "Bundle" THEN x.bundle ELSE x.packet)
\* A pair with a 3-tuple of values of both types has been converted.
ConversionWitness ==
  /\ conv.some /\ conv.val.out.some
  /\ conv.val.in.form = "Pair" /\ conv.val.in.args.form = "Tuple"
  /\ Len(conv.val.in.args.vals) = 3
  /\ conv.val.in.args.vals[1].ty = "i32" /\ conv.val.in.args.vals[1].v = 1
  /\ conv.val.in.args.vals[2].ty = "str"
  /\ conv.val.in.args.vals[3].ty = "i32" /\ conv.val.in.args.vals[3].v = 0
  /\ Len(conv.val.out.val.args) = 3
  /\ conv.val.out.val.args[2].t = "String"

\* C17: when the packet does not encode, send and send_to, of the socket
\* and of a sender, return the encode error and make no transmit call.
EncodeFailFast ==
  lastSend.some =>
    LET l == lastSend.val
    IN ~l.enc.some =>
         /\ l.result = ErrOsc
         /\ l.io = None
         /\ l.dst = None
\* A sender's send_to of a packet that does not encode has returned.
EncodeFailFastWitness ==
  /\ lastSend.some
  /\ lastSend.val.via = "sender" /\ lastSend.val.op = "send_to"
  /\ ~lastSend.val.enc.some
  /\ lastSend.val.result = ErrOsc

\* C18: a step in which a send or send_to returns, from the socket or a
\* sender, with success or failure, leaves every receiver's stored buffer,
\* receive in progress and outstanding receives as they were.
SendsKeepReceiveState ==
  [][lastSend'.some => (fut' = fut /\ buf' = buf /\ outstanding' = outstanding)]_vars
\* A sender's send has succeeded while a receive was in flight.
SendsKeepReceiveStateWitness ==
  /\ lastSend.some
  /\ lastSend.val.via = "sender" /\ lastSend.val.result.ok
  /\ fut[lastSend.val.sock].some /\ outstanding[lastSend.val.sock] = 1

\* What of a send's outcome its caller and the network see.
Seen(r) ==
  [result |-> r.result, enc |-> r.enc, io |-> r.io,
   dst |-> IF r.tx.some THEN Some(r.tx.val.dst) ELSE None]

\* C19: with the connection state and the address of any call made, for
\* every packet and every answer of the transport, the sender's send and
\* send_to return and transmit what the socket's do; and what a call made
\* returned and transmitted is what the socket's call does for some packet
\* and answer.
SenderSocketEquivalence ==
  lastSend.some =>
    LET l == lastSend.val
    IN /\ \A p \in PacketLikes : \A out \in SendOutcomes :
            IF l.op = "send"
            THEN OscSender_send(l.conn, p, out) = OscSocket_send(l.conn, p, out)
            ELSE OscSender_send_to(l.conn, p, l.addr.val, out)
                   = OscSocket_send_to(l.conn, p, l.addr.val, out)
       /\ \E p \in PacketLikes : \E out \in SendOutcomes :
            Seen(IF l.op = "send" THEN OscSocket_send(l.conn, p, out)
                 ELSE OscSocket_send_to(l.conn, p, l.addr.val, out))
              = [result |-> l.result, enc |-> l.enc, io |-> l.io, dst |-> l.dst]
\* A sender of a connected socket has sent in full with send.
SenderSocketEquivalenceWitness ==
  /\ lastSend.some
  /\ lastSend.val.via = "sender" /\ lastSend.val.op = "send"
  /\ lastSend.val.conn.some /\ lastSend.val.result.ok

\* C21: the receiver never yields the end of the stream: every completed
\* receive is yielded as an item, a datagram or an IO error, also when the
\* transport reported an error; and so the socket's stream yields an item
\* for each and never its end.
NeverEndOfStream ==
  \A s \in Sock :
    /\ Len(recvd[s]) = Len(done[s]) /\ Len(items[s]) = Len(done[s])
    /\ \A i \in 1..Len(done[s]) :
         /\ recvd[s][i].some
         /\ recvd[s][i].val.ok <=> done[s][i].kind = "dgram"
         /\ items[s][i].some
\* A receiver has yielded a datagram and then an IO error of the transport.
NeverEndOfStreamWitness ==
  \E s \in Sock : \E i, j \in 1..Len(recvd[s]) :
    /\ i < j
    /\ recvd[s][i].some /\ recvd[s][i].val.ok
    /\ done[s][j].kind = "err"
    /\ recvd[s][j] = Some([ok |-> FALSE, kind |-> done[s][j].errkind])
    /\ items[s][j] = Some(ErrIo(done[s][j].errkind))

====
